---------------------------- MODULE Spec2Model ----------------------------
(***************************************************************************)
(* A model of usb-fatmove (src/usb-fatmove.py) and of its library twin     *)
(* transfat/fatsort.py: the device resolver (findDeviceLocation), the      *)
(* transfer planner (getSourceAndDestinationLists), the extension filter   *)
(* (filterOutExtensions), the creation of the destination directories      *)
(* (createDirsAndParents), the mv options (getmvOptions), the fatsort      *)
(* probe (fatsortAvailable) and the driver that runs them in turn.         *)
(*                                                                         *)
(* Strings are sequences of one-character strings, so that prefix tests,   *)
(* suffix tests, slicing by length and lower-casing are computed as the    *)
(* code computes them.  Python's 0-based list positions are 1-based here.  *)
(***************************************************************************)
EXTENDS Integers, Sequences, FiniteSets, TLC

\* Constants mirrored in the config file
NO == 0
YES == 1
PROMPT == 2

\* ------------------------------------------------------------------ bounds
\* Longest mount table enumerated
MaxMounts == 2
\* Longest list of source arguments enumerated
MaxSources == 2
\* Longest list of target directories enumerated
MaxTargets == 2

\* ----------------------------------------------------------------- strings
BoundedSeq(S, n) == UNION {[1..k -> S] : k \in 0..n}

Upper == [A |-> "a", B |-> "b", C |-> "c", D |-> "d", E |-> "e", F |-> "f",
          G |-> "g", H |-> "h", I |-> "i", J |-> "j", K |-> "k", L |-> "l",
          M |-> "m", N |-> "n", O |-> "o", P |-> "p", Q |-> "q", R |-> "r",
          S |-> "s", T |-> "t", U |-> "u", V |-> "v", W |-> "w", X |-> "x",
          Y |-> "y", Z |-> "z"]

\* str.lower()
lower(s) == [i \in 1..Len(s) |-> IF s[i] \in DOMAIN Upper THEN Upper[s[i]] ELSE s[i]]

\* str.startswith(prefix)
startswith(s, prefix) ==
    /\ Len(prefix) <= Len(s)
    /\ SubSeq(s, 1, Len(prefix)) = prefix

\* str.endswith(suffix) for one suffix
endswith1(s, suffix) ==
    /\ Len(suffix) <= Len(s)
    /\ SubSeq(s, Len(s) - Len(suffix) + 1, Len(s)) = suffix

\* str.endswith(tuple of suffixes)
endswith(s, suffixes) == \E k \in 1..Len(suffixes) : endswith1(s, suffixes[k])

\* s[n:] for n >= 0
slice(s, n) == IF n >= Len(s) THEN <<>> ELSE SubSeq(s, n + 1, Len(s))

\* list.index(x): position of the first occurrence
index(list, x) == CHOOSE i \in 1..Len(list) :
                      /\ list[i] = x
                      /\ \A j \in 1..(i - 1) : list[j] # x

\* list.pop(i): the list without its i-th entry
pop(list, i) == SubSeq(list, 1, i - 1) \o SubSeq(list, i + 1, Len(list))

\* list[::-1]
reversed(list) == [i \in 1..Len(list) |-> list[Len(list) + 1 - i]]

\* ------------------------------------------------------------------- paths
\* The process's working directory, which os.path.abspath joins relative
\* paths to
cwd == <<"/", "r">>

RECURSIVE split(_, _)
\* str.split(sep) for a one-character separator
split(s, sep) ==
    IF \A i \in 1..Len(s) : s[i] # sep
    THEN <<s>>
    ELSE LET i == CHOOSE k \in 1..Len(s) :
                      s[k] = sep /\ \A j \in 1..(k - 1) : s[j] # sep
         IN <<SubSeq(s, 1, i - 1)>> \o split(slice(s, i), sep)

RECURSIVE joinsep(_)
\* '/'.join(comps)
joinsep(comps) ==
    IF comps = <<>> THEN <<>>
    ELSE IF Len(comps) = 1 THEN comps[1]
    ELSE comps[1] \o <<"/">> \o joinsep(Tail(comps))

RECURSIVE normcomps(_, _, _)
\* The component loop of posixpath.normpath
normcomps(comps, new, initial) ==
    IF comps = <<>> THEN new
    ELSE LET comp == Head(comps)
             rest == Tail(comps)
         IN IF comp = <<>> \/ comp = <<".">>
            THEN normcomps(rest, new, initial)
            ELSE IF \/ comp # <<".", ".">>
                    \/ (initial = 0 /\ new = <<>>)
                    \/ (new # <<>> /\ new[Len(new)] = <<".", ".">>)
            THEN normcomps(rest, Append(new, comp), initial)
            ELSE IF new # <<>>
            THEN normcomps(rest, SubSeq(new, 1, Len(new) - 1), initial)
            ELSE normcomps(rest, new, initial)

\* posixpath.normpath
normpath(path) ==
    IF path = <<>> THEN <<".">>
    ELSE LET initial == IF ~startswith(path, <<"/">>) THEN 0
                        ELSE IF startswith(path, <<"/", "/">>)
                                /\ ~startswith(path, <<"/", "/", "/">>)
                        THEN 2 ELSE 1
             body == joinsep(normcomps(split(path, "/"), <<>>, initial))
             res == [i \in 1..initial |-> "/"] \o body
         IN IF res = <<>> THEN <<".">> ELSE res

\* posixpath.join(a, b)
pathjoin(a, b) ==
    IF startswith(b, <<"/">>) THEN b
    ELSE IF a = <<>> \/ a[Len(a)] = "/" THEN a \o b
    ELSE a \o <<"/">> \o b

\* os.path.abspath
abspath(path) ==
    IF startswith(path, <<"/">>) THEN normpath(path)
    ELSE normpath(pathjoin(cwd, path))

RECURSIVE rstripslash(_)
\* str.rstrip('/')
rstripslash(s) ==
    IF s # <<>> /\ s[Len(s)] = "/" THEN rstripslash(SubSeq(s, 1, Len(s) - 1))
    ELSE s

\* os.path.dirname
dirname(p) ==
    LET slashes == {k \in 1..Len(p) : p[k] = "/"}
        i == IF slashes = {} THEN 0
             ELSE CHOOSE k \in slashes : \A j \in slashes : j <= k
        head == SubSeq(p, 1, i)
    IN IF head # <<>> /\ (\E k \in 1..Len(head) : head[k] # "/")
       THEN rstripslash(head) ELSE head

\* os.path.basename
basename(p) == slice(p, Len(p) - Len(split(p, "/")[Len(split(p, "/"))]))

\* -------------------------------------------------------------------- state
VARIABLES
    pc,                \* where the run stands
    destination,       \* args.destination
    sources,           \* args.sources
    noninteractive,    \* args.non_interactive
    quiet,             \* args.quiet
    configsettings,    \* the section of the config file in use
    deviceListSep,     \* the mounted FAT volumes, [dev, mnt] in mount order
    devLoc,            \* device location returned by the resolver
    mntLoc,            \* mount location returned by the resolver
    sourceDirs,        \* fromDirs
    sourceFiles,       \* fromFiles
    destinationDirs,   \* toDirs
    destinationFiles,  \* toFiles
    reads,             \* what the last call read from the operator
    stderr,            \* error lines printed by the last call
    verbose,           \* args.verbose
    no_fatsort,        \* args.no_fatsort
    installed,         \* whether 'type fatsort' finds the fatsort tool
    euid,              \* os.geteuid()
    sudoCached,        \* whether 'sudo -n echo' succeeds
    mvFlags,           \* the options getmvOptions returned
    fs,                \* the destination tree: its directories and plain files
    targetIndex,       \* position of createDirsAndParents' loop in toDirs
    echoed             \* the lines moveFiles printed

vars == <<pc, destination, sources, noninteractive, quiet, configsettings,
          deviceListSep, devLoc, mntLoc, sourceDirs, sourceFiles,
          destinationDirs, destinationFiles, reads, stderr, verbose,
          no_fatsort, installed, euid, sudoCached, mvFlags, fs, targetIndex,
          echoed>>

planVars == <<sources, configsettings, sourceDirs, sourceFiles,
              destinationDirs, destinationFiles>>

resolverVars == <<deviceListSep, devLoc, mntLoc>>

driverVars == <<verbose, no_fatsort, installed, euid, sudoCached, mvFlags, fs,
                targetIndex, echoed>>

\* A destination tree with nothing in it
NoTree == [dirs |-> {}, files |-> {}]

\* The driver's variables in a run of one function on its own
NoDriver ==
    /\ verbose = FALSE
    /\ no_fatsort = TRUE
    /\ installed = FALSE
    /\ euid = 0
    /\ sudoCached = FALSE
    /\ mvFlags = <<>>
    /\ fs = NoTree
    /\ targetIndex = 1
    /\ echoed = <<>>


\* ---------------------------------------------------------- device resolver
\* What one call of the resolver does: the pair it returns, whether it
\* raised instead of returning, the selections it read and the error lines
\* it printed
Outcome(dev, mnt, raised, rd, err) ==
    [dev |-> dev, mnt |-> mnt, raised |-> raised, reads |-> rd, err |-> err]

\* The 'for i in range(len(deviceList))' scan: positions whose mount
\* location is a string prefix of the destination
matches(dest, table) == {i \in 1..Len(table) : startswith(dest, table[i].mnt)}

\* A scan that keeps going and answers with the last match
firstMatch_last(dest, table) ==
    CHOOSE i \in matches(dest, table) : \A j \in matches(dest, table) : j <= i

\* The first match of the scan
firstMatch(dest, table) ==
    CHOOSE i \in matches(dest, table) : \A j \in matches(dest, table) : i <= j

\* deviceListSep[ans-1] with Python's list indexing: a negative index
\* counts from the end, anything outside the list raises IndexError
selected(table, ans, rd, err) ==
    LET n == Len(table)
        k == IF ans - 1 >= 0 THEN ans ELSE n + ans
    IN IF k >= 1 /\ k <= n
       THEN Outcome(table[k].dev, table[k].mnt, FALSE, rd, err)
       ELSE Outcome("", <<>>, TRUE, rd, err)

\* The 'if ans == 0 / elif ans > len(deviceListEnum)-1 / else' ladder
selection(table, ans, q) ==
    LET rd == <<[query |-> "drive", answer |-> ans]>>
    IN IF ans = 0 THEN Outcome("", <<>>, FALSE, rd, <<>>)
       ELSE IF ans > Len(table)
       THEN Outcome("", <<>>, FALSE, rd,
                    IF ~q THEN <<"ERROR: invalid index">> ELSE <<>>)
       ELSE selected(table, ans, rd, <<>>)

\* A resolver that falls back to the drive prompt whatever the mode
findDeviceLocation_alwaysAsks(dest0, nonint, q, table, ans) ==
    LET dest == abspath(dest0)
    IN IF table = <<>> THEN Outcome("", <<>>, FALSE, <<>>, <<>>)
       ELSE IF matches(dest, table) # {}
       THEN Outcome(table[firstMatch(dest, table)].dev,
                    table[firstMatch(dest, table)].mnt, FALSE, <<>>, <<>>)
       ELSE selection(table, ans, q)

\* usb-fatmove.py findDeviceLocation; ans is the integer the operator
\* types if asked
findDeviceLocation(dest0, nonint, q, table, ans) ==
    LET dest == abspath(dest0)
    IN IF table = <<>> THEN Outcome("", <<>>, FALSE, <<>>, <<>>)
       ELSE IF matches(dest, table) # {}
       THEN Outcome(table[firstMatch(dest, table)].dev,
                    table[firstMatch(dest, table)].mnt, FALSE, <<>>, <<>>)
       ELSE IF ~nonint THEN selection(table, ans, q)
       ELSE Outcome("", <<>>, FALSE, <<>>, <<>>)

\* transfat/fatsort.py findDeviceLocations, the library copy of the same
\* function
findDeviceLocations(dest0, nonint, q, table, ans) ==
    LET dest == abspath(dest0)
        hit == {i \in 1..Len(table) : startswith(dest, table[i].mnt)}
        n == Len(table)
        rd == <<[query |-> "drive", answer |-> ans]>>
    IN IF table = <<>> THEN Outcome("", <<>>, FALSE, <<>>, <<>>)
       ELSE IF hit # {}
       THEN LET i == CHOOSE k \in hit : \A j \in hit : k <= j
            IN Outcome(table[i].dev, table[i].mnt, FALSE, <<>>, <<>>)
       ELSE IF nonint THEN Outcome("", <<>>, FALSE, <<>>, <<>>)
       ELSE IF ans = 0 THEN Outcome("", <<>>, FALSE, rd, <<>>)
       ELSE IF ans > n
       THEN Outcome("", <<>>, FALSE, rd,
                    IF ~q THEN <<"ERROR: invalid index">> ELSE <<>>)
       ELSE IF ans >= 1 THEN Outcome(table[ans].dev, table[ans].mnt, FALSE, rd, <<>>)
       ELSE IF n + ans >= 1
       THEN Outcome(table[n + ans].dev, table[n + ans].mnt, FALSE, rd, <<>>)
       ELSE Outcome("", <<>>, TRUE, rd, <<>>)

\* Mounted FAT volumes the mount table is drawn from
Volumes == {[dev |-> "/dev/sdb1", mnt |-> <<"/", "u">>],
            [dev |-> "/dev/sdc1", mnt |-> <<"/", "u", "2">>],
            [dev |-> "/dev/sdd1", mnt |-> <<"/", "w">>]}

\* Destination arguments: under /u, under /u2 (which /u also prefixes),
\* with a trailing slash, on no FAT volume, and relative to cwd
Destinations == {<<"/", "u", "/", "m">>, <<"/", "u", "2", "/", "m">>,
                 <<"/", "w", "/">>, <<"/", "v">>, <<"m">>}

\* Integers the operator may type at the drive prompt
Selections == (0 - MaxMounts - 1)..(MaxMounts + 1)

InitResolve ==
    /\ pc = "resolve"
    /\ destination \in Destinations
    /\ noninteractive \in BOOLEAN
    /\ quiet \in BOOLEAN
    /\ deviceListSep \in BoundedSeq(Volumes, MaxMounts)
    /\ devLoc = ""
    /\ mntLoc = <<>>
    /\ reads = <<>>
    /\ stderr = <<>>
    /\ NoDriver
    /\ sources = <<>>
    /\ configsettings = <<>>
    /\ sourceDirs = <<>>
    /\ sourceFiles = <<>>
    /\ destinationDirs = <<>>
    /\ destinationFiles = <<>>

\* The state after a resolver call with outcome o
Resolved(o, how) ==
    /\ pc' = IF o.raised THEN "raised" ELSE how
    /\ devLoc' = o.dev
    /\ mntLoc' = o.mnt
    /\ reads' = o.reads
    /\ stderr' = o.err
    /\ UNCHANGED <<destination, noninteractive, quiet, deviceListSep>>
    /\ UNCHANGED planVars
    /\ UNCHANGED driverVars

\* The driver's call of findDeviceLocation (usb-fatmove.py)
RunFindDeviceLocation ==
    /\ pc = "resolve"
    /\ \E ans \in Selections :
          Resolved(findDeviceLocation(destination, noninteractive, quiet,
                                      deviceListSep, ans), "resolved")

\* A call of the library's findDeviceLocations (transfat/fatsort.py)
RunFindDeviceLocations ==
    /\ pc = "resolve"
    /\ \E ans \in Selections :
          Resolved(findDeviceLocations(destination, noninteractive, quiet,
                                       deviceListSep, ans), "resolvedlib")

NextResolve == RunFindDeviceLocation \/ RunFindDeviceLocations

SpecResolve == InitResolve /\ [][NextResolve]_vars

\* --------------------------------------------------------------- filesystem
\* The files and directories present, in the order the system lists them:
\*   /t.mp3   /q/e.m3u   /q/n.txt   /r/k.JPG   /r/a/f.mp3   /r/a/h.cue
\*   /r/a/b/g.log
FsEntries == <<
    [kind |-> "file", path |-> <<"/", "t", ".", "m", "p", "3">>],
    [kind |-> "dir",  path |-> <<"/", "q">>],
    [kind |-> "file", path |-> <<"/", "q", "/", "e", ".", "m", "3", "u">>],
    [kind |-> "file", path |-> <<"/", "q", "/", "n", ".", "t", "x", "t">>],
    [kind |-> "dir",  path |-> <<"/", "r">>],
    [kind |-> "file", path |-> <<"/", "r", "/", "k", ".", "J", "P", "G">>],
    [kind |-> "dir",  path |-> <<"/", "r", "/", "a">>],
    [kind |-> "file", path |-> <<"/", "r", "/", "a", "/", "f", ".", "m", "p", "3">>],
    [kind |-> "file", path |-> <<"/", "r", "/", "a", "/", "h", ".", "c", "u", "e">>],
    [kind |-> "dir",  path |-> <<"/", "r", "/", "a", "/", "b">>],
    [kind |-> "file", path |-> <<"/", "r", "/", "a", "/", "b", "/", "g", ".", "l", "o", "g">>] >>

\* os.path.isfile
isfile(p) == \E k \in 1..Len(FsEntries) :
                 FsEntries[k].kind = "file" /\ FsEntries[k].path = p

\* os.path.isdir
isdir(p) == \/ p = <<"/">>
            \/ \E k \in 1..Len(FsEntries) :
                   FsEntries[k].kind = "dir" /\ FsEntries[k].path = p

\* Each entry with the directory that holds it and its name there
FsListed == [k \in 1..Len(FsEntries) |->
                [kind |-> FsEntries[k].kind,
                 parent |-> dirname(FsEntries[k].path),
                 name |-> slice(FsEntries[k].path,
                                Len(pathjoin(dirname(FsEntries[k].path), <<>>)))]]

\* The names of the entries of one kind in directory top, in listing order
\* (the dirs and files of one os.walk step)
listing(top, kind) ==
    LET IsIn(e) == e.kind = kind /\ e.parent = top
        named(found) == [k \in 1..Len(found) |-> found[k].name]
    IN named(SelectSeq(FsListed, IsIn))

RECURSIVE walk(_)
RECURSIVE walkEach(_, _)
\* A walk that yields a directory after its subdirectories (topdown=False)
walk_bottomUp(top) ==
    walkEach(top, listing(top, "dir"))
        \o <<[root |-> top, files |-> listing(top, "file")]>>

\* os.walk(top), top-down: the step of top, then the walk of each of its
\* subdirectories in turn; each step is [root, files]
walk(top) ==
    <<[root |-> top, files |-> listing(top, "file")]>>
        \o walkEach(top, listing(top, "dir"))

\* The 'for dirname in dirs: yield from walk(join(top, dirname))' of os.walk
walkEach(top, dirs) ==
    IF dirs = <<>> THEN <<>>
    ELSE walk(pathjoin(top, Head(dirs))) \o walkEach(top, Tail(dirs))

\* ----------------------------------------------------------- transfer planner
\* The four lists and the error lines of an expansion
Plan(sd, sf, dd, df, err) ==
    [sourceDirs |-> sd, sourceFiles |-> sf, destinationDirs |-> dd,
     destinationFiles |-> df, err |-> err]

\* [root + '/' + file for file in files]
withFiles(root, files) ==
    [k \in 1..Len(files) |-> root \o <<"/">> \o files[k]]

RECURSIVE walked(_, _, _, _)
\* The body of 'for root, _, files in os.walk(source)' over the remaining
\* steps, appending to plan
walked(steps, parentlen, destinationPath, plan) ==
    IF steps = <<>> THEN plan
    ELSE LET root == Head(steps).root
             files == Head(steps).files
             target == destinationPath \o slice(root, parentlen)
         IN walked(Tail(steps), parentlen, destinationPath,
                   Plan(plan.sourceDirs \o <<root>>,
                        plan.sourceFiles \o withFiles(root, files),
                        plan.destinationDirs \o <<target>>,
                        plan.destinationFiles \o withFiles(target, files),
                        plan.err))

\* A turn that plans a source that is neither file nor directory as a file
expandSource_keepsMissing(source, destinationPath, q, plan) ==
    IF isdir(source)
    THEN walked(walk(source), Len(dirname(source)), destinationPath, plan)
    ELSE Plan(plan.sourceDirs,
              plan.sourceFiles \o <<source>>,
              plan.destinationDirs,
              plan.destinationFiles
                  \o <<destinationPath \o slice(source, Len(dirname(source)))>>,
              plan.err)

\* One turn of 'for source in sourcePaths'
expandSource(source, destinationPath, q, plan) ==
    LET parent == dirname(source)
        parentlen == Len(parent)
    IN IF isfile(source)
       THEN Plan(plan.sourceDirs,
                 plan.sourceFiles \o <<source>>,
                 plan.destinationDirs,
                 plan.destinationFiles
                     \o <<destinationPath \o slice(source, parentlen)>>,
                 plan.err)
       ELSE IF isdir(source)
       THEN walked(walk(source), parentlen, destinationPath, plan)
       ELSE Plan(plan.sourceDirs, plan.sourceFiles, plan.destinationDirs,
                 plan.destinationFiles,
                 IF ~q THEN plan.err \o <<<<"ERROR: does not exist!", source>>>>
                 ELSE plan.err)

RECURSIVE expandAll(_, _, _, _)
\* The loop 'for source in sourcePaths'
expandAll(sourcePaths, destinationPath, q, plan) ==
    IF sourcePaths = <<>> THEN plan
    ELSE expandAll(Tail(sourcePaths), destinationPath, q,
                   expandSource(Head(sourcePaths), destinationPath, q, plan))

\* getSourceAndDestinationLists
getSourceAndDestinationLists(sourceLocs, destinationLoc, q) ==
    LET sourcePaths == [k \in 1..Len(sourceLocs) |-> abspath(sourceLocs[k])]
        destinationPath == abspath(destinationLoc)
    IN expandAll(sourcePaths, destinationPath, q,
                 Plan(<<>>, <<>>, <<>>, <<>>, <<>>))

\* ----------------------------------------------------------- extension filter
audioExt == << <<".", "f", "l", "a", "c">>, <<".", "o", "g", "g">>,
               <<".", "m", "p", "4">>, <<".", "a", "l", "a", "c">>,
               <<".", "a", "a", "c">>, <<".", "m", "p", "3">> >>
imageExt == << <<".", "j", "p", "g">>, <<".", "j", "p", "e", "g">>,
               <<".", "b", "m", "p">>, <<".", "p", "n", "g">>,
               <<".", "g", "i", "f">> >>
logExt == << <<".", "l", "o", "g">> >>
cueExt == << <<".", "c", "u", "e">> >>
m3uExt == << <<".", "m", "3", "u">> >>

\* The settings the filter loads: each is configsettings.getint(<key>)
imageOption(cfg) == cfg["RemoveCue"]
logOption(cfg) == cfg["RemoveLog"]
cueOption(cfg) == cfg["RemoveCue"]
m3uOption(cfg) == cfg["RemoveM4U"]
otherOption(cfg) == cfg["RemoveOtherFiletypes"]

\* The file extensions paired with their config settings
extensionList(cfg) == << [ext |-> imageExt, removeOption |-> imageOption(cfg)],
                         [ext |-> logExt, removeOption |-> logOption(cfg)],
                         [ext |-> cueExt, removeOption |-> cueOption(cfg)],
                         [ext |-> m3uExt, removeOption |-> m3uOption(cfg)] >>

\* All non-audio extensions
nonAudioExt == imageExt \o logExt \o cueExt \o m3uExt

\* The test that keeps a file: PROMPT keeps without asking when
\* non-interactive and otherwise on a yes; NO keeps
keeps(removeOption, nonint, yes) ==
    \/ (removeOption = PROMPT /\ (nonint \/ yes))
    \/ removeOption = NO

\* Whether the test above calls prompt()
asks(removeOption, nonint) == removeOption = PROMPT /\ ~nonint

RECURSIVE matchExt(_, _, _, _, _)
\* 'for ext, removeOption in extensionList' for one file: the indices it adds
\* to indexList (a kept file breaks out of the loop)
matchExt(list, file, pairs, nonint, yes) ==
    IF pairs = <<>> THEN <<>>
    ELSE IF endswith(lower(file), Head(pairs).ext)
    THEN IF keeps(Head(pairs).removeOption, nonint, yes)
         THEN <<>>
         ELSE <<index(list, file)>>
                  \o matchExt(list, file, Tail(pairs), nonint, yes)
    ELSE matchExt(list, file, Tail(pairs), nonint, yes)

\* The indices one file of the loop 'for file in sourceFileList' adds to
\* indexList; yes is the operator's answer if this file is asked about
marked(list, file, cfg, nonint, yes) ==
    IF endswith(lower(file), audioExt) THEN <<>>
    ELSE IF endswith(lower(file), nonAudioExt)
    THEN matchExt(list, file, extensionList(cfg), nonint, yes)
    ELSE IF keeps(otherOption(cfg), nonint, yes) THEN <<>>
    ELSE <<index(list, file)>>

\* The setting consulted for a non-audio file
optionOf(file, cfg) ==
    IF endswith(lower(file), nonAudioExt)
    THEN LET k == CHOOSE j \in 1..Len(extensionList(cfg)) :
                      /\ endswith(lower(file), extensionList(cfg)[j].ext)
                      /\ \A i \in 1..(j - 1) :
                             ~endswith(lower(file), extensionList(cfg)[i].ext)
         IN extensionList(cfg)[k].removeOption
    ELSE otherOption(cfg)

\* The positions of the list at which the loop calls prompt("Move '<file>'?")
asked(list, cfg, nonint) ==
    {i \in 1..Len(list) : /\ ~endswith(lower(list[i]), audioExt)
                          /\ asks(optionOf(list[i], cfg), nonint)}

RECURSIVE indexList(_, _, _, _, _)
\* indexList after the loop has handled positions i..len; answers maps each
\* position asked about to the operator's answer
indexList(list, i, cfg, nonint, answers) ==
    IF i > Len(list) THEN <<>>
    ELSE marked(list, list[i], cfg, nonint,
                IF i \in DOMAIN answers THEN answers[i] ELSE FALSE)
             \o indexList(list, i + 1, cfg, nonint, answers)

RECURSIVE popAll(_, _)
\* 'for index in indexList[::-1]: list.pop(index)'
popAll(list, indices) ==
    IF indices = <<>> THEN list
    ELSE popAll(pop(list, Head(indices)), Tail(indices))

RECURSIVE transcript(_, _, _)
\* The prompts of one run in the order asked, each with its answer
transcript(list, i, answers) ==
    IF i > Len(list) THEN <<>>
    ELSE (IF i \in DOMAIN answers
          THEN <<[query |-> list[i], answer |-> answers[i]]>> ELSE <<>>)
             \o transcript(list, i + 1, answers)

\* A filter that pops the destination list in the order the indices were
\* found instead of in reverse
filterOutExtensions_forward(sourceFileList, destinationFileList, cfg, nonint, answers) ==
    LET both(indices) == [sourceFiles |-> popAll(sourceFileList, reversed(indices)),
                          destinationFiles |-> popAll(destinationFileList, indices)]
    IN both(indexList(sourceFileList, 1, cfg, nonint, answers))

\* filterOutExtensions: the two lists after the call
filterOutExtensions(sourceFileList, destinationFileList, cfg, nonint, answers) ==
    LET both(indices) == [sourceFiles |-> popAll(sourceFileList, indices),
                          destinationFiles |-> popAll(destinationFileList, indices)]
    IN both(reversed(indexList(sourceFileList, 1, cfg, nonint, answers)))

\* ------------------------------------------------------------------ planning
\* Source arguments: a file in the root directory, a directory in the root
\* directory, a file, a directory, a directory inside it given relative to
\* cwd, and a path that does not exist
SourceArgs == {<<"/", "t", ".", "m", "p", "3">>,
               <<"/", "q">>,
               <<"/", "r", "/", "k", ".", "J", "P", "G">>,
               <<"/", "r", "/", "a">>,
               <<"a", "/", "b">>,
               <<"/", "x">>}

\* Destination arguments of a transfer: a directory on the volume, the same
\* with a trailing slash, and one relative to cwd
PlanDestinations == {<<"/", "u", "/", "m">>, <<"/", "u", "/">>, <<"m">>}

SettingKeys == {"RemoveImages", "RemoveLog", "RemoveCue", "RemoveM4U",
                "RemoveOtherFiletypes"}

\* The settings of a run that loads none
NoSettings == [k \in SettingKeys |-> NO]

\* Expansion alone, over every list of source arguments
InitExpand ==
    /\ pc = "plan"
    /\ destination \in PlanDestinations
    /\ sources \in BoundedSeq(SourceArgs, MaxSources)
    /\ noninteractive = TRUE
    /\ quiet \in BOOLEAN
    /\ configsettings = NoSettings
    /\ deviceListSep = <<>>
    /\ devLoc = ""
    /\ mntLoc = <<>>
    /\ sourceDirs = <<>>
    /\ sourceFiles = <<>>
    /\ destinationDirs = <<>>
    /\ destinationFiles = <<>>
    /\ reads = <<>>
    /\ stderr = <<>>
    /\ NoDriver

\* Source arguments of the runs that go on to filter: between them they
\* hold a file of every class, and the directory /r/a holds a/b
FilterSourceArgs == {<<"/", "q">>,
                     <<"/", "r", "/", "k", ".", "J", "P", "G">>,
                     <<"/", "r", "/", "a">>,
                     <<"a", "/", "b">>}

\* Every settings mapping
AllSettings == [SettingKeys -> {NO, YES, PROMPT}]

\* Expansion followed by filtering, over every list of source arguments and
\* every mapping of the settings filterOutExtensions loads.  The filter never
\* loads RemoveImages, so no run depends on its value; it is held at NO here
\* and ranges over its three values in InitImages.
InitPlan ==
    /\ pc = "plan"
    /\ destination = <<"/", "u", "/", "m">>
    /\ sources \in BoundedSeq(FilterSourceArgs, MaxSources)
    /\ noninteractive \in BOOLEAN
    /\ quiet = FALSE
    /\ configsettings \in {cfg \in AllSettings : cfg["RemoveImages"] = NO}
    /\ deviceListSep = <<>>
    /\ devLoc = ""
    /\ mntLoc = <<>>
    /\ sourceDirs = <<>>
    /\ sourceFiles = <<>>
    /\ destinationDirs = <<>>
    /\ destinationFiles = <<>>
    /\ reads = <<>>
    /\ stderr = <<>>
    /\ NoDriver

\* Expansion of one source argument followed by filtering, over every
\* settings mapping, RemoveImages included
InitImages ==
    /\ pc = "plan"
    /\ destination = <<"/", "u", "/", "m">>
    /\ sources \in {<<arg>> : arg \in FilterSourceArgs}
    /\ noninteractive \in BOOLEAN
    /\ quiet = FALSE
    /\ configsettings \in AllSettings
    /\ deviceListSep = <<>>
    /\ devLoc = ""
    /\ mntLoc = <<>>
    /\ sourceDirs = <<>>
    /\ sourceFiles = <<>>
    /\ destinationDirs = <<>>
    /\ destinationFiles = <<>>
    /\ reads = <<>>
    /\ stderr = <<>>
    /\ NoDriver

\* The driver's call of getSourceAndDestinationLists
RunGetSourceAndDestinationLists ==
    /\ pc = "plan"
    /\ \E plan \in {getSourceAndDestinationLists(sources, destination, quiet)} :
          /\ sourceDirs' = plan.sourceDirs
          /\ sourceFiles' = plan.sourceFiles
          /\ destinationDirs' = plan.destinationDirs
          /\ destinationFiles' = plan.destinationFiles
          /\ stderr' = plan.err
    /\ pc' = "planned"
    /\ reads' = <<>>
    /\ UNCHANGED <<destination, sources, noninteractive, quiet, configsettings>>
    /\ UNCHANGED resolverVars
    /\ UNCHANGED driverVars

\* A call of filterOutExtensions on the plan's file lists, the operator
\* answering each prompt yes or no
RunFilterOutExtensions ==
    /\ pc \in {"planned", "filtered"}
    /\ \E answers \in [asked(sourceFiles, configsettings, noninteractive)
                           -> BOOLEAN] :
          \E out \in {filterOutExtensions(sourceFiles, destinationFiles,
                                          configsettings, noninteractive,
                                          answers)} :
             /\ sourceFiles' = out.sourceFiles
             /\ destinationFiles' = out.destinationFiles
             /\ reads' = transcript(sourceFiles, 1, answers)
    /\ pc' = "filtered"
    /\ stderr' = <<>>
    /\ UNCHANGED <<destination, sources, noninteractive, quiet, configsettings,
                   sourceDirs, destinationDirs>>
    /\ UNCHANGED resolverVars
    /\ UNCHANGED driverVars

NextExpand == RunGetSourceAndDestinationLists

SpecExpand == InitExpand /\ [][NextExpand]_vars

NextPlan == RunGetSourceAndDestinationLists \/ RunFilterOutExtensions

SpecPlan == InitPlan /\ [][NextPlan]_vars

SpecImages == InitImages /\ [][NextPlan]_vars

\* ------------------------------------------------- destination directories
\* os.path.isdir and os.path.isfile on the destination tree
isdirOn(tree, p) == p \in tree.dirs
isfileOn(tree, p) == p \in tree.files

RECURSIVE ancestors(_)
\* The directories above p, the root included
ancestors(p) ==
    IF p = <<"/">> \/ p = <<>> THEN {}
    ELSE {dirname(p)} \cup ancestors(dirname(p))

\* os.remove(p): the plain file goes, unless the call fails
remove(tree, p, fails) ==
    IF fails THEN [ok |-> FALSE, tree |-> tree]
    ELSE [ok |-> TRUE, tree |-> [tree EXCEPT !.files = @ \ {p}]]

\* The ways a creation can fail for a reason outside the tree: not at all,
\* before anything is made, or at p itself once its parents are made
MkFailures == {"none", "first", "leaf"}

\* os.makedirs(p): makes the missing directories above p, then p; fails when
\* p exists, when a plain file stands above p, or when a mkdir fails
makedirs(tree, p, fails) ==
    IF \/ p \in tree.files \cup tree.dirs
       \/ ancestors(p) \cap tree.files # {}
       \/ fails = "first"
    THEN [ok |-> FALSE, tree |-> tree]
    ELSE IF fails = "leaf"
    THEN [ok |-> FALSE, tree |-> [tree EXCEPT !.dirs = @ \cup ancestors(p)]]
    ELSE [ok |-> TRUE,
          tree |-> [tree EXCEPT !.dirs = @ \cup ancestors(p) \cup {p}]]

\* The overwrite setting createDirsAndParents works with: it does not prompt
\* in non-interactive mode
overwritePolicy_asks(cfg, nonint) == cfg["OverwriteDestinationFiles"]

overwritePolicy(cfg, nonint) ==
    IF nonint /\ cfg["OverwriteDestinationFiles"] = PROMPT THEN NO
    ELSE cfg["OverwriteDestinationFiles"]

\* What one turn of the loop leaves: the tree, the prompt it made, the error
\* lines it printed, and whether an error left the loop
Turn(tree, rd, err, raised) ==
    [fs |-> tree, reads |-> rd, err |-> err, raised |-> raised]

\* The handler 'except OSError' of a turn
failed(targetDir, tree, rd, said, q) ==
    Turn(tree, rd,
         IF q THEN <<>>
         ELSE said \o <<<<"ERROR: Failed to create", targetDir>>>>,
         FALSE)

\* 'os.makedirs(targetDir)' at the end of a turn
made(targetDir, result, rd, q) ==
    IF result.ok THEN Turn(result.tree, rd, <<>>, FALSE)
    ELSE failed(targetDir, result.tree, rd, <<>>, q)

\* A turn whose OSError is not handled
createDir_propagates(targetDir, tree, overwrite, q, yes, rmFails, mkFails) ==
    IF isdirOn(tree, targetDir) THEN Turn(tree, <<>>, <<>>, FALSE)
    ELSE IF makedirs(tree, targetDir, mkFails).ok
         THEN Turn(makedirs(tree, targetDir, mkFails).tree, <<>>, <<>>, FALSE)
         ELSE Turn(tree, <<>>, <<>>, TRUE)

\* One turn of 'for targetDir in destinationDirsList'; yes is the operator's
\* answer should the turn prompt
createDir(targetDir, tree, overwrite, q, yes, rmFails, mkFails) ==
    LET rd == IF overwrite = PROMPT
              THEN <<[query |-> targetDir, answer |-> yes]>> ELSE <<>>
        removed(result) ==
            IF result.ok
            THEN made(targetDir, makedirs(result.tree, targetDir, mkFails), rd, q)
            ELSE failed(targetDir, result.tree, rd, <<>>, q)
    IN IF isdirOn(tree, targetDir) THEN Turn(tree, <<>>, <<>>, FALSE)
       ELSE IF isfileOn(tree, targetDir)
       THEN IF overwrite = YES \/ (overwrite = PROMPT /\ yes)
            THEN removed(remove(tree, targetDir, rmFails))
            ELSE failed(targetDir, tree, rd,
                        IF q THEN <<>>
                        ELSE <<<<"ERROR: attempting to overwrite a file with a directory!">>>>,
                        q)
       ELSE made(targetDir, makedirs(tree, targetDir, mkFails), <<>>, q)

\* The call of createDirsAndParents: control reaches its loop
CallCreateDirsAndParents ==
    /\ pc = "filtered"
    /\ pc' = "mkdirs"
    /\ targetIndex' = 1
    /\ reads' = <<>>
    /\ stderr' = <<>>
    /\ UNCHANGED <<destination, noninteractive, quiet, verbose, no_fatsort,
                   installed, euid, sudoCached, mvFlags, fs, echoed>>
    /\ UNCHANGED planVars
    /\ UNCHANGED resolverVars

\* One turn of the loop of createDirsAndParents, on toDirs[targetIndex]
CreateDir ==
    /\ pc = "mkdirs"
    /\ targetIndex <= Len(destinationDirs)
    /\ \E yes \in BOOLEAN, rmFails \in BOOLEAN, mkFails \in MkFailures :
          \E out \in {createDir(destinationDirs[targetIndex], fs,
                                overwritePolicy(configsettings, noninteractive),
                                quiet, yes, rmFails, mkFails)} :
             /\ fs' = out.fs
             /\ reads' = reads \o out.reads
             /\ stderr' = stderr \o out.err
             /\ pc' = IF out.raised THEN "raised" ELSE "mkdirs"
    /\ targetIndex' = targetIndex + 1
    /\ UNCHANGED <<destination, noninteractive, quiet, verbose, no_fatsort,
                   installed, euid, sudoCached, mvFlags, echoed>>
    /\ UNCHANGED planVars
    /\ UNCHANGED resolverVars

\* The return of createDirsAndParents, the list exhausted
ReturnCreateDirsAndParents ==
    /\ pc = "mkdirs"
    /\ targetIndex > Len(destinationDirs)
    /\ pc' = "created"
    /\ UNCHANGED <<destination, noninteractive, quiet, reads, stderr>>
    /\ UNCHANGED planVars
    /\ UNCHANGED resolverVars
    /\ UNCHANGED driverVars

\* Directories asked for: one, a directory in it, and a third beside it
TargetDirs == {<<"/", "u", "/", "m", "/", "a">>,
               <<"/", "u", "/", "m", "/", "a", "/", "b">>,
               <<"/", "u", "/", "m", "/", "q">>}

\* What may stand at a path of the destination tree
Kinds == {"none", "dir", "file"}

\* The tree in which the paths /u/m, /u/m/a, /u/m/a/b and /u/m/q are of the
\* kinds given
treeOf(m, a, b, q) ==
    LET at == << [path |-> <<"/", "u", "/", "m">>, kind |-> m],
                 [path |-> <<"/", "u", "/", "m", "/", "a">>, kind |-> a],
                 [path |-> <<"/", "u", "/", "m", "/", "a", "/", "b">>, kind |-> b],
                 [path |-> <<"/", "u", "/", "m", "/", "q">>, kind |-> q] >>
        of(kind) == {at[i].path : i \in {j \in 1..Len(at) : at[j].kind = kind}}
    IN [dirs |-> {<<"/">>, <<"/", "u">>} \cup of("dir"), files |-> of("file")]

\* The destination trees: a path holds something only inside a directory
Trees == {treeOf(m, a, b, q) : <<m, a, b, q>> \in
             {t \in Kinds \X Kinds \X Kinds \X Kinds :
                 /\ (t[2] # "none" \/ t[4] # "none") => t[1] = "dir"
                 /\ t[3] # "none" => t[2] = "dir"
                 /\ t[4] # "dir"}}

\* The settings with overwrite-on-conflict set to v, the rest at NO
overwriteSet(v) ==
    [k \in SettingKeys \cup {"OverwriteDestinationFiles"} |->
        IF k = "OverwriteDestinationFiles" THEN v ELSE NO]

\* The overwrite settings: the three policies and a value that is none of them
OverwriteValues == {NO, YES, PROMPT, PROMPT + 1}

\* createDirsAndParents alone, over every list of targets, tree and policy
InitCreate ==
    /\ pc = "filtered"
    /\ destination = <<"/", "u", "/", "m">>
    /\ sources = <<>>
    /\ noninteractive \in BOOLEAN
    /\ quiet \in BOOLEAN
    /\ configsettings \in {overwriteSet(v) : v \in OverwriteValues}
    /\ deviceListSep = <<>>
    /\ devLoc = ""
    /\ mntLoc = <<>>
    /\ sourceDirs = <<>>
    /\ sourceFiles = <<>>
    /\ destinationDirs \in BoundedSeq(TargetDirs, MaxTargets)
    /\ destinationFiles = <<>>
    /\ reads = <<>>
    /\ stderr = <<>>
    /\ verbose = FALSE
    /\ no_fatsort = TRUE
    /\ installed = FALSE
    /\ euid = 0
    /\ sudoCached = FALSE
    /\ mvFlags = <<>>
    /\ fs \in Trees
    /\ targetIndex = 1
    /\ echoed = <<>>

NextCreate ==
    \/ CallCreateDirsAndParents
    \/ CreateDir
    \/ ReturnCreateDirsAndParents

SpecCreate == InitCreate /\ [][NextCreate]_vars

\* ------------------------------------------------------------------ driver
\* The exit status of 'bash -c "type fatsort"'
typeFatsort(found) == IF found THEN 0 ELSE 1

\* fatsortAvailable (usb-fatmove.py): bool(exitCode)
fatsortAvailable(exitCode) == exitCode # 0

\* fatsortAvailable (transfat/fatsort.py): bool(exitCode)
fatsortAvailableLib(exitCode) == exitCode # 0

\* requestRootAccess: "root" when it returns true, "refused" when it returns
\* false, "exec" when it replaces the process by sudo running the script
requestRootAccess(uid, nonint, cached) ==
    IF uid = 0 THEN "root"
    ELSE IF nonint /\ ~cached THEN "refused"
    ELSE "exec"

\* The overwrite option of a getmvOptions that asks in any mode
getmvOptions_alwaysAsks(cfg, nonint, verb) ==
    (IF cfg["OverwriteDestinationFiles"] = YES THEN <<"-f">>
     ELSE IF cfg["OverwriteDestinationFiles"] = PROMPT THEN <<"-i">>
     ELSE <<"-n">>)
        \o (IF verb THEN <<"-v">> ELSE <<>>)

\* getmvOptions
getmvOptions(cfg, nonint, verb) ==
    (IF cfg["OverwriteDestinationFiles"] = YES THEN <<"-f">>
     ELSE IF cfg["OverwriteDestinationFiles"] = PROMPT /\ ~nonint THEN <<"-i">>
     ELSE <<"-n">>)
        \o (IF verb THEN <<"-v">> ELSE <<>>)

\* The driver's test of the resolver's result, one that never fails
noDevice_never(dev) == FALSE

\* The driver's test of the resolver's result: devLoc == ''
noDevice(dev) == dev = ""

\* moveFiles: one line per pair of zip(sourceFiles, destinationFiles)
moveFiles(sf, df) ==
    [i \in 1..(IF Len(sf) < Len(df) THEN Len(sf) ELSE Len(df)) |->
        <<sf[i], df[i]>>]

\* sys.exit(1) after the error line, printed unless quiet
Abort(line) ==
    /\ pc' = "aborted"
    /\ stderr' = IF quiet THEN <<>> ELSE <<line>>

\* The check that several sources are not written to a single file
CheckArguments ==
    /\ pc = "start"
    /\ IF ~isdirOn(fs, abspath(destination)) /\ Len(sources) > 1
       THEN Abort(<<"ERROR: cannot write multiple files to a single file!">>)
       ELSE pc' = "root" /\ stderr' = <<>>
    /\ UNCHANGED <<destination, noninteractive, quiet, reads>>
    /\ UNCHANGED planVars
    /\ UNCHANGED resolverVars
    /\ UNCHANGED driverVars

\* The call of requestRootAccess, skipped when not fatsorting; sudo either
\* runs the script again as root or fails
RunRequestRootAccess ==
    /\ pc = "root"
    /\ \E how \in {IF no_fatsort THEN "root"
                   ELSE requestRootAccess(euid, noninteractive, sudoCached)} :
          \/ /\ how = "root"
             /\ pc' = "fatsort"
             /\ stderr' = <<>>
             /\ euid' = euid
          \/ /\ how = "refused"
             /\ Abort(<<"ERROR: failed to run as root!">>)
             /\ euid' = euid
          \/ /\ how = "exec"
             /\ \/ pc' = "start" /\ euid' = 0
                \/ pc' = "aborted" /\ euid' = euid
             /\ stderr' = <<>>
    /\ UNCHANGED <<destination, noninteractive, quiet, reads, verbose,
                   no_fatsort, installed, sudoCached, mvFlags, fs, targetIndex,
                   echoed>>
    /\ UNCHANGED planVars
    /\ UNCHANGED resolverVars

\* The confirmation that fatsort is installed, skipped when not fatsorting
CheckFatsort ==
    /\ pc = "fatsort"
    /\ IF no_fatsort \/ fatsortAvailable(typeFatsort(installed))
       THEN pc' = "resolve" /\ stderr' = <<>>
       ELSE Abort(<<"ERROR: fatsort not found!">>)
    /\ UNCHANGED <<destination, noninteractive, quiet, reads>>
    /\ UNCHANGED planVars
    /\ UNCHANGED resolverVars
    /\ UNCHANGED driverVars

\* The library's fatsortAvailable, called on its own
RunFatsortAvailableLib ==
    /\ pc = "fatsort"
    /\ pc' = IF fatsortAvailableLib(typeFatsort(installed))
             THEN "available" ELSE "unavailable"
    /\ UNCHANGED <<destination, noninteractive, quiet, reads, stderr>>
    /\ UNCHANGED planVars
    /\ UNCHANGED resolverVars
    /\ UNCHANGED driverVars

\* The driver's test of what findDeviceLocation returned
CheckDevice ==
    /\ pc = "resolved"
    /\ IF noDevice(devLoc)
       THEN Abort(<<"ERROR: no FAT device found!">>)
       ELSE pc' = "found" /\ stderr' = <<>>
    /\ UNCHANGED <<destination, noninteractive, quiet, reads>>
    /\ UNCHANGED planVars
    /\ UNCHANGED resolverVars
    /\ UNCHANGED driverVars

\* The driver's call of getmvOptions
RunGetmvOptions ==
    /\ pc = "found"
    /\ mvFlags' = getmvOptions(configsettings, noninteractive, verbose)
    /\ pc' = "plan"
    /\ UNCHANGED <<destination, noninteractive, quiet, reads, stderr, verbose,
                   no_fatsort, installed, euid, sudoCached, fs, targetIndex,
                   echoed>>
    /\ UNCHANGED planVars
    /\ UNCHANGED resolverVars

\* The driver's one call of filterOutExtensions
DriverFilter == pc = "planned" /\ RunFilterOutExtensions

\* The driver's call of moveFiles
RunMoveFiles ==
    /\ pc = "created"
    /\ echoed' = moveFiles(sourceFiles, destinationFiles)
    /\ pc' = "done"
    /\ UNCHANGED <<destination, noninteractive, quiet, reads, stderr, verbose,
                   no_fatsort, installed, euid, sudoCached, mvFlags, fs,
                   targetIndex>>
    /\ UNCHANGED planVars
    /\ UNCHANGED resolverVars

\* Mount tables of the driver's runs: none, one volume, two volumes
DriverTables ==
    {<<>>,
     <<[dev |-> "/dev/sdb1", mnt |-> <<"/", "u">>]>>,
     <<[dev |-> "/dev/sdb1", mnt |-> <<"/", "u">>],
       [dev |-> "/dev/sdd1", mnt |-> <<"/", "w">>]>>}

\* Destinations of the driver's runs: one on a volume, one on none
DriverDestinations == {<<"/", "u", "/", "m">>, <<"/", "v">>}

\* Source lists of the driver's runs
DriverSources == {<< <<"/", "r", "/", "a">> >>,
                  << <<"/", "q">> >>,
                  << <<"/", "q">>, <<"/", "x">> >>}

\* Destination trees of the driver's runs: /u/m absent, an empty directory,
\* and a directory where a plain file stands at /u/m/a
DriverTrees == {treeOf("none", "none", "none", "none"),
                treeOf("dir", "none", "none", "none"),
                treeOf("dir", "file", "none", "none")}

\* The state after the arguments are parsed and the settings loaded
InitDriver ==
    /\ pc = "start"
    /\ destination \in DriverDestinations
    /\ sources \in DriverSources
    /\ noninteractive \in BOOLEAN
    /\ quiet = FALSE
    /\ configsettings \in {overwriteSet(v) : v \in OverwriteValues}
    /\ deviceListSep \in DriverTables
    /\ devLoc = ""
    /\ mntLoc = <<>>
    /\ sourceDirs = <<>>
    /\ sourceFiles = <<>>
    /\ destinationDirs = <<>>
    /\ destinationFiles = <<>>
    /\ reads = <<>>
    /\ stderr = <<>>
    /\ verbose \in BOOLEAN
    /\ no_fatsort \in BOOLEAN
    /\ installed \in BOOLEAN
    /\ euid \in {0, 1000}
    /\ sudoCached \in (IF euid = 0 THEN {TRUE} ELSE BOOLEAN)
    /\ mvFlags = <<>>
    /\ fs \in DriverTrees
    /\ targetIndex = 1
    /\ echoed = <<>>

NextDriver ==
    \/ CheckArguments
    \/ RunRequestRootAccess
    \/ CheckFatsort
    \/ RunFatsortAvailableLib
    \/ RunFindDeviceLocation
    \/ CheckDevice
    \/ RunGetmvOptions
    \/ RunGetSourceAndDestinationLists
    \/ DriverFilter
    \/ CallCreateDirsAndParents
    \/ CreateDir
    \/ ReturnCreateDirsAndParents
    \/ RunMoveFiles

SpecDriver == InitDriver /\ [][NextDriver]_vars

\* ================================================================== claims
\* ------------------------------------------------------------ device resolver
\* A resolver call has ended, by returning or by raising
ResolverDone == pc \in {"resolved", "resolvedlib", "raised"}

\* The mount locations that are string prefixes of the absolute destination
PrefixMounts == {i \in 1..Len(deviceListSep) :
                    startswith(abspath(destination), deviceListSep[i].mnt)}

\* C5: whenever the mount table is non-empty and some mount point is a string
\* prefix of the absolute destination, the resolver returns the pair of the
\* first such mount point in enumeration order, and reads no selection, in
\* interactive and in non-interactive mode alike.
C5_FirstPrefixMatch ==
    (ResolverDone /\ PrefixMounts # {}) =>
        /\ pc # "raised"
        /\ reads = <<>>
        /\ \E i \in PrefixMounts :
              /\ \A j \in PrefixMounts : i <= j
              /\ devLoc = deviceListSep[i].dev
              /\ mntLoc = deviceListSep[i].mnt

\* C5 witness: two different volumes both prefix the destination, the mode is
\* interactive, and the call returned the first
C5_Witness ==
    /\ pc = "resolved"
    /\ ~noninteractive
    /\ PrefixMounts = {1, 2}
    /\ deviceListSep[1] # deviceListSep[2]
    /\ devLoc = deviceListSep[1].dev

\* The selection case: a mount table of n >= 1 volumes, none a prefix of the
\* destination, interactive mode
SelectionCase ==
    /\ ResolverDone
    /\ deviceListSep # <<>>
    /\ PrefixMounts = {}
    /\ ~noninteractive

\* C6: in the selection case, selection 0 returns (empty, empty); every
\* integer outside 0..n returns (empty, empty) and reports an invalid index
\* unless quiet; k in 1..n returns the k-th pair; and the call always
\* returns rather than fails.
C6_SelectionInRange ==
    (SelectionCase /\ Len(reads) = 1) =>
        LET ans == reads[1].answer
            n == Len(deviceListSep)
        IN /\ pc # "raised"
           /\ ans = 0 => (devLoc = "" /\ mntLoc = <<>>)
           /\ (ans < 0 \/ ans > n) =>
                 /\ devLoc = "" /\ mntLoc = <<>>
                 /\ ~quiet => stderr = <<"ERROR: invalid index">>
           /\ ans \in 1..n =>
                 /\ devLoc = deviceListSep[ans].dev
                 /\ mntLoc = deviceListSep[ans].mnt

\* C7: the resolver reads a selection only when the mount table is
\* non-empty, nothing matches and the mode is interactive; with an empty
\* mount table, or with no match in non-interactive mode, it returns
\* (empty, empty) and reads nothing.
C7_PromptOnlyWhenInteractive ==
    ResolverDone =>
        /\ reads # <<>> =>
              (deviceListSep # <<>> /\ PrefixMounts = {} /\ ~noninteractive)
        /\ (deviceListSep = <<>> \/ (PrefixMounts = {} /\ noninteractive)) =>
              /\ pc # "raised"
              /\ devLoc = ""
              /\ mntLoc = <<>>
              /\ reads = <<>>

\* C7 witness: mounted volumes, none matching, non-interactive mode: the
\* call returned (empty, empty) without reading
C7_Witness ==
    /\ pc = "resolved"
    /\ Len(deviceListSep) = 2
    /\ PrefixMounts = {}
    /\ noninteractive
    /\ devLoc = ""
    /\ reads = <<>>

\* ----------------------------------------------------------- transfer planner
\* The plan the expansion produced for this run's arguments
Expanded == getSourceAndDestinationLists(sources, destination, quiet)

\* Entries i of the two lists as pairs
paired(sf, df) ==
    [i \in 1..(IF Len(sf) <= Len(df) THEN Len(sf) ELSE Len(df)) |-> <<sf[i], df[i]>>]

\* The file pairs of a plan
pairsOf(plan) == paired(plan.sourceFiles, plan.destinationFiles)

\* How many entries of list equal x
count(list, x) == Cardinality({i \in 1..Len(list) : list[i] = x})

RECURSIVE isSubsequence(_, _)
\* a is b with some entries left out, the rest in order
isSubsequence(a, b) ==
    IF a = <<>> THEN TRUE
    ELSE IF b = <<>> THEN FALSE
    ELSE IF Head(a) = Head(b) THEN isSubsequence(Tail(a), Tail(b))
    ELSE isSubsequence(a, Tail(b))

\* The entries of list at the positions in keep, in order
subList(list, keep) ==
    LET at == SelectSeq([i \in 1..Len(list) |-> i], LAMBDA i : i \in keep)
    IN [k \in 1..Len(at) |-> list[at[k]]]

isAudio(file) == endswith(lower(file), audioExt)
isImage(file) == endswith(lower(file), imageExt)

\* C1: after filtering, every audio entry of the expanded lists is still
\* present with its paired destination, as many times as it was listed,
\* whatever the settings, the mode and the list (repeated paths included).
C1_AudioRetained ==
    pc = "filtered" =>
        \A i \in 1..Len(Expanded.sourceFiles) :
            isAudio(Expanded.sourceFiles[i]) =>
                LET entry == <<Expanded.sourceFiles[i], Expanded.destinationFiles[i]>>
                IN count(paired(sourceFiles, destinationFiles), entry)
                       = count(paired(Expanded.sourceFiles,
                                      Expanded.destinationFiles), entry)

\* C2: in non-interactive mode an image file is removed iff the remove-images
\* setting is YES, whatever the other settings are.
C2_ImagesByRemoveImages ==
    (pc = "filtered" /\ noninteractive) =>
        \A i \in 1..Len(Expanded.sourceFiles) :
            isImage(Expanded.sourceFiles[i]) =>
                LET entry == <<Expanded.sourceFiles[i], Expanded.destinationFiles[i]>>
                IN (count(paired(sourceFiles, destinationFiles), entry) = 0)
                       <=> (configsettings["RemoveImages"] = YES)

\* The positions of the list about to be filtered whose entry is not audio
\* and whose setting is PROMPT, in interactive mode: the rule asks there
RuleAsks == {i \in 1..Len(sourceFiles) :
                /\ ~isAudio(sourceFiles[i])
                /\ optionOf(sourceFiles[i], configsettings) = PROMPT
                /\ ~noninteractive}

\* The positions the rule keeps, given the answers the run read (the k-th
\* answer belongs to the k-th position asked about)
RuleKeeps ==
    {i \in 1..Len(sourceFiles) :
        \/ isAudio(sourceFiles[i])
        \/ optionOf(sourceFiles[i], configsettings) = NO
        \/ /\ optionOf(sourceFiles[i], configsettings) = PROMPT
           /\ \/ noninteractive
              \/ reads'[Cardinality({j \in RuleAsks : j <= i})].answer}

\* C3: one run of the filter removes exactly the entries the policy rule
\* removes (setting YES, or PROMPT answered no in interactive mode), asks
\* "Move '<file>'?" exactly for the entries whose setting is PROMPT in
\* interactive mode, and keeps every other entry, for every input list.  The
\* setting is the one the filter consults for the entry's extension.
C3_PolicyExact ==
    [][pc' = "filtered" =>
          /\ Len(reads') = Cardinality(RuleAsks)
          /\ sourceFiles' = subList(sourceFiles, RuleKeeps)
          /\ destinationFiles' = subList(destinationFiles, RuleKeeps)]_vars

\* C4: after the expansion and after any number of filter runs the file
\* lists have equal length, the directory lists have equal length, and the
\* remaining (source, destination) pairs are pairs of the expansion, in
\* their order: no entry of one list is removed or shifted without its twin.
C4_PlanAligned ==
    pc \in {"planned", "filtered"} =>
        /\ Len(sourceFiles) = Len(destinationFiles)
        /\ Len(sourceDirs) = Len(destinationDirs)
        /\ isSubsequence(paired(sourceFiles, destinationFiles), pairsOf(Expanded))

\* C4 witness: filtering removed some entries and left others
C4_Witness ==
    /\ pc = "filtered"
    /\ Len(sourceFiles) >= 2
    /\ Len(sourceFiles) < Len(Expanded.sourceFiles)

\* Entry e is source path s or lies beneath it
under(e, s) == e = s \/ startswith(e, s \o <<"/">>)

\* The path of e relative to directory parent
relativeTo(e, parent) ==
    IF parent = <<"/">> THEN slice(e, 1) ELSE slice(e, Len(parent) + 1)

\* Destination root, separator, path relative to the parent of source s
mapped(e, s) ==
    abspath(destination) \o <<"/">> \o relativeTo(e, dirname(s))

\* Every entry of src is mapped to the entry of dst at the same position
\* through one of the source paths holding it
allMapped(src, dst) ==
    /\ Len(src) = Len(dst)
    /\ \A i \in 1..Len(src) :
          \E k \in 1..Len(sources) :
              /\ under(src[i], abspath(sources[k]))
              /\ dst[i] = mapped(src[i], abspath(sources[k]))

\* C8: every file and directory of the plan has as destination the
\* destination root, a separator and its path relative to its source's
\* parent directory (sources in the root directory included); a single file
\* source yields [file], [destinationRoot/basename(file)] and no directories.
C8_DestinationMapping ==
    pc = "planned" =>
        /\ allMapped(sourceFiles, destinationFiles)
        /\ allMapped(sourceDirs, destinationDirs)
        /\ (Len(sources) = 1 /\ isfile(abspath(sources[1]))) =>
              /\ sourceFiles = <<abspath(sources[1])>>
              /\ destinationFiles = <<abspath(destination) \o <<"/">>
                                          \o basename(abspath(sources[1]))>>
              /\ sourceDirs = <<>>
              /\ destinationDirs = <<>>

\* Directory a is a proper ancestor of directory d
isAncestor(a, d) == startswith(d, a \o <<"/">>)

\* Every entry that has an ancestor in the list comes after an occurrence
\* of that ancestor
parentFirst(list) ==
    \A j \in 1..Len(list) : \A i \in 1..Len(list) :
        isAncestor(list[i], list[j]) => \E k \in 1..(j - 1) : list[k] = list[i]

\* C9 as claimed: for every list of sources, nested ones in any order
\* included, every directory of sourceDirs and of destinationDirs appears
\* before any of its descendants.
C9_ParentBeforeChild ==
    pc = "planned" => (parentFirst(sourceDirs) /\ parentFirst(destinationDirs))

\* C9 amended: every directory of destinationDirs appears before any of its
\* descendants; every directory of sourceDirs that is not itself one of the
\* source paths appears after its parent directory.
C9_ParentBeforeChildAmended ==
    pc = "planned" =>
        /\ parentFirst(destinationDirs)
        /\ \A j \in 1..Len(sourceDirs) :
              (\A k \in 1..Len(sources) : sourceDirs[j] # abspath(sources[k]))
                  => \E i \in 1..(j - 1) : sourceDirs[i] = dirname(sourceDirs[j])

\* C9 witness: a source nested inside a later source, so that sourceDirs
\* lists a directory ahead of its ancestor, with the destinations in order
C9_Witness ==
    /\ pc = "planned"
    /\ ~parentFirst(sourceDirs)
    /\ Len(destinationDirs) >= 3
    /\ parentFirst(destinationDirs)

\* No prompt of the run just made is answered differently from the run
\* before it
SameAnswers ==
    \A i \in 1..Len(reads) : \A j \in 1..Len(reads') :
        reads[i].query = reads'[j].query => reads[i].answer = reads'[j].answer

\* C10: a filter run on lists a filter run produced, with the same settings
\* and no prompt answered differently (as always in non-interactive mode),
\* removes nothing further.
C10_FilterIdempotent ==
    [][(pc = "filtered" /\ pc' = "filtered" /\ SameAnswers) =>
          (sourceFiles' = sourceFiles /\ destinationFiles' = destinationFiles)]_vars

\* The source argument names neither a regular file nor a directory
isMissing(arg) == ~isfile(abspath(arg)) /\ ~isdir(abspath(arg))

\* The source arguments that name a file or a directory, in order
present(args) == SelectSeq(args, LAMBDA arg : ~isMissing(arg))

\* The four lists of a plan
lists(plan) == <<plan.sourceDirs, plan.sourceFiles,
                 plan.destinationDirs, plan.destinationFiles>>

\* C13: a source path that is neither a regular file nor a directory adds
\* no entry to any of the four lists and does not stop expansion: the plan
\* of a source list equals the plan of that list with such paths removed.
C13_MissingSourceSkipped ==
    pc = "planned" =>
        <<sourceDirs, sourceFiles, destinationDirs, destinationFiles>>
            = lists(getSourceAndDestinationLists(present(sources),
                                                 destination, quiet))

\* C13 witness: a missing source ahead of an existing one, whose entries
\* are planned
C13_Witness ==
    /\ pc = "planned"
    /\ Len(sources) = 2
    /\ isMissing(sources[1])
    /\ ~isMissing(sources[2])
    /\ sourceFiles # <<>>
    /\ stderr # <<>>

\* ------------------------------------------------- destination directories
\* The loop of createDirsAndParents is about to take a turn
Turning == pc = "mkdirs" /\ targetIndex <= Len(destinationDirs)

\* The target of the turn about to be taken
target == destinationDirs[targetIndex]

\* The line that reports the failure to create t
failureOf(t) == <<"ERROR: Failed to create", t>>

\* C11: createDirsAndParents takes the entries of destinationDirs one by one
\* in the order supplied, each exactly once, and never leaves the loop early:
\* a turn acts on its own target only, a target that is not a directory after
\* its turn is reported unless quiet, no error reaches the caller, and the
\* call returns only when every entry has had its turn.
C11_EveryTargetVisited ==
    [][pc = "mkdirs" =>
          /\ pc' \in {"mkdirs", "created"}
          /\ destinationDirs' = destinationDirs
          /\ pc' = "created" => (targetIndex = Len(destinationDirs) + 1
                                    /\ targetIndex' = targetIndex)
          /\ Turning =>
                /\ pc' = "mkdirs"
                /\ targetIndex' = targetIndex + 1
                /\ fs'.dirs \ fs.dirs \subseteq {target} \cup ancestors(target)
                /\ fs.files \ fs'.files \subseteq {target}
                /\ (~isdirOn(fs', target) /\ ~quiet) =>
                      (/\ Len(stderr') > Len(stderr)
                       /\ stderr'[Len(stderr')] = failureOf(target))
                /\ (~isdirOn(fs', target) /\ quiet) => stderr' = stderr]_vars

\* C11 witness: the call has returned from a list of two targets, the first
\* of which failed and was reported and the second of which, absent before,
\* was then created
C11_Witness ==
    /\ pc = "created"
    /\ Len(destinationDirs) = 2
    /\ destinationDirs[1] # destinationDirs[2]
    /\ ~isdirOn(fs, destinationDirs[1])
    /\ stderr # <<>>
    /\ stderr[Len(stderr)] = failureOf(destinationDirs[1])
    /\ destinationDirs[2] = <<"/", "u", "/", "m", "/", "q">>
    /\ isdirOn(fs, destinationDirs[2])

\* The operator confirmed the prompt of the turn just taken
confirmed == reads' = reads \o <<[query |-> target, answer |-> TRUE]>>

\* The policy and mode under which a plain file at the target may be removed
mayOverwrite ==
    \/ configsettings["OverwriteDestinationFiles"] = YES
    \/ /\ configsettings["OverwriteDestinationFiles"] = PROMPT
       /\ ~noninteractive
       /\ confirmed

\* C12: a turn of createDirsAndParents removes no file but a plain file at
\* its target, and that only when the overwrite policy is YES, or is PROMPT
\* in interactive mode and the operator confirms; otherwise the file stays,
\* no directory is made at the path, and nothing is made elsewhere.  No
\* prompt is issued in non-interactive mode.  A target that is a directory
\* already leaves the tree unchanged.
C12_OverwriteOnlyWhenAllowed ==
    [][Turning =>
          /\ fs'.files \subseteq fs.files
          /\ fs.files \ fs'.files \subseteq {target}
          /\ (isfileOn(fs, target) /\ ~isfileOn(fs', target)) => mayOverwrite
          /\ (isfileOn(fs, target) /\ ~mayOverwrite) => fs' = fs
          /\ noninteractive => reads' = reads
          /\ isdirOn(fs, target) => (fs' = fs /\ reads' = reads)]_vars

\* C12 witness: the operator confirmed the prompt for /u/m/q, where no
\* directory stood before, and a directory stands there now
C12_Witness ==
    /\ pc \in {"mkdirs", "created"}
    /\ configsettings["OverwriteDestinationFiles"] = PROMPT
    /\ \E i \in 1..Len(reads) :
          reads[i] = [query |-> <<"/", "u", "/", "m", "/", "q">>, answer |-> TRUE]
    /\ isdirOn(fs, <<"/", "u", "/", "m", "/", "q">>)
    /\ ~isfileOn(fs, <<"/", "u", "/", "m", "/", "q">>)

\* ------------------------------------------------------------------ driver
\* C14: fatsortAvailable answers true when 'type fatsort' exits with status 0
\* and false otherwise, so the driver, when fatsort is not disabled, goes on
\* to device resolution exactly when fatsort is installed and exits with
\* status 1 exactly when it is not.
C14_FatsortAvailable ==
    [][pc = "fatsort" =>
          /\ pc' = "available" => installed
          /\ pc' = "unavailable" => ~installed
          /\ (~no_fatsort /\ pc' = "resolve") => installed
          /\ (~no_fatsort /\ pc' = "aborted") => ~installed]_vars

\* The run is past device resolution and its test
Working == pc \in {"found", "plan", "planned", "filtered", "mkdirs", "created",
                   "done"}

\* The plan, the destination tree and the output of moveFiles
effects == <<sourceDirs, sourceFiles, destinationDirs, destinationFiles, fs,
             echoed>>

\* C15: the driver expands, filters, creates directories and moves files
\* only after the resolver returned a non-empty device; when the resolver
\* returns (empty, empty) the driver exits with status 1, and a run that
\* exits so has planned nothing, created and removed nothing, and moved
\* nothing.
C15_ResolveBeforeWork ==
    [][/\ effects' # effects => (Working /\ devLoc # "")
       /\ (pc' = "found" /\ pc # "found") => (pc = "resolved" /\ devLoc # "")
       /\ (pc = "resolved" /\ devLoc = "") => pc' = "aborted"
       /\ pc' = "aborted" =>
             (/\ ~Working
              /\ echoed' = <<>>
              /\ destinationDirs' = <<>>
              /\ sourceFiles' = <<>>
              /\ fs' = fs)]_vars

\* C15 witness: the operator was asked for a volume, the resolver returned no
\* device, and the driver has exited with the tree as it was
C15_Witness ==
    /\ pc = "aborted"
    /\ devLoc = ""
    /\ reads # <<>>
    /\ stderr = <<<<"ERROR: no FAT device found!">>>>
    /\ fs \in DriverTrees
    /\ echoed = <<>>

\* The driver holds the options getmvOptions returned
OptionsDone == pc \in {"plan", "planned", "filtered", "mkdirs", "created",
                       "done"}

\* The option is among those returned
has(option) == \E i \in 1..Len(mvFlags) : mvFlags[i] = option

\* C16: getmvOptions returns exactly one overwrite option: -f iff the
\* overwrite setting is YES, -i iff it is PROMPT and the run is interactive,
\* -n in every other case; -v is added iff verbose is set; -i is never
\* returned in non-interactive mode.
C16_OneOverwriteOption ==
    OptionsDone =>
        LET setting == configsettings["OverwriteDestinationFiles"]
            force == setting = YES
            ask == setting = PROMPT /\ ~noninteractive
        IN /\ Cardinality({i \in 1..Len(mvFlags) :
                              mvFlags[i] \in {"-f", "-i", "-n"}}) = 1
           /\ has("-f") <=> force
           /\ has("-i") <=> ask
           /\ has("-n") <=> (~force /\ ~ask)
           /\ has("-v") <=> verbose
           /\ Cardinality({i \in 1..Len(mvFlags) : mvFlags[i] = "-v"}) <= 1
           /\ noninteractive => ~has("-i")

\* C16 witness: the setting is PROMPT in a non-interactive verbose run, and
\* the options are never-overwrite and verbose
C16_Witness ==
    /\ pc = "plan"
    /\ configsettings["OverwriteDestinationFiles"] = PROMPT
    /\ noninteractive
    /\ mvFlags = <<"-n", "-v">>

=============================================================================
